---- MODULE Spec2Model ----
(***************************************************************************)
(* A model of the logger crate: the builders (logger.rs, fmt/mod.rs,       *)
(* fmt/writer/mod.rs), the default rendering of a record (fmt/mod.rs), the *)
(* Writer's print (fmt/writer/buffer.rs) and the dispatch of Logger::log   *)
(* over the thread-local Formatter slot (logger.rs).                       *)
(*                                                                         *)
(* Bytes are modelled as sequences of one-character strings; an ANSI       *)
(* escape sequence is one element.  Option<T> is a sequence of length 0    *)
(* (None) or 1 (Some).                                                     *)
(***************************************************************************)
EXTENDS Integers, Sequences, FiniteSets, TLC

(***************************************************************************)
(* Bounds of the model.                                                    *)
(***************************************************************************)
\* log() calls made in one behaviour, over all threads
MaxCalls == 2
\* nesting depth of log() calls on one thread (1 = no re-entrancy)
MaxDepth == 2
\* bytes a pipe sink accepts in one write() call
SinkChunk == 8
\* build() calls made on one builder in one behaviour
MaxBuilds == 2

Threads == {"t1", "t2"}
LoggerIds == {"l1", "l2"}

Min(a, b) == IF a <= b THEN a ELSE b

(***************************************************************************)
(* Records (log::Record): level, target, optional module path, message.    *)
(***************************************************************************)
Levels == {"Error", "Warn", "Info", "Debug", "Trace"}

\* log::Level as usize, and log::LevelFilter as usize (Off = 0)
LevelNum(level) ==
    CASE level = "Error" -> 1
      [] level = "Warn"  -> 2
      [] level = "Info"  -> 3
      [] level = "Debug" -> 4
      [] level = "Trace" -> 5

\* Level::as_str
LevelName(level) ==
    CASE level = "Error" -> <<"E", "R", "R", "O", "R">>
      [] level = "Warn"  -> <<"W", "A", "R", "N">>
      [] level = "Info"  -> <<"I", "N", "F", "O">>
      [] level = "Debug" -> <<"D", "E", "B", "U", "G">>
      [] level = "Trace" -> <<"T", "R", "A", "C", "E">>

(***************************************************************************)
(* Styles (anstyle::Style): the sequence of escape sequences "{style}"     *)
(* renders; the plain style renders nothing, and "{style:#}" renders the   *)
(* reset only for a style that is not plain.                               *)
(***************************************************************************)
ColorChoices == {"Always", "AlwaysAnsi", "Never"}

PlainStyle == <<>>
RESET == "\\e[0m"

StyleRender(style) == style
StyleRenderReset(style) == IF style = PlainStyle THEN <<>> ELSE <<RESET>>

\* Formatter::default_level_style
default_level_style(write_style, level) ==
    IF write_style = "Never"
    THEN PlainStyle
    ELSE CASE level = "Trace" -> <<"\\e[36m">>
           [] level = "Debug" -> <<"\\e[34m">>
           [] level = "Info"  -> <<"\\e[32m">>
           [] level = "Warn"  -> <<"\\e[33m">>
           [] level = "Error" -> <<"\\e[1m", "\\e[31m">>

\* DefaultFormat::subtle_style
subtle_style_always(write_style, text) ==
    [style |-> <<"\\e[90m">>, value |-> text]
subtle_style(write_style, text) ==
    [style |-> IF write_style = "Never" THEN PlainStyle ELSE <<"\\e[90m">>,
     value |-> text]

\* Formatter::pad of a string under a width and left alignment ("{:<w}");
\* width 0 is no width
Pad(s, width) ==
    IF Len(s) >= width THEN s ELSE s \o [i \in 1..(width - Len(s)) |-> " "]

\* <StyledValue as Display>::fmt: the style, the value under f's settings
\* (its width), the style's reset
StyledValueFmtPadOutside(sv, width) ==
    Pad(StyleRender(sv.style) \o sv.value \o StyleRenderReset(sv.style),
        width + Len(StyleRender(sv.style)) + Len(StyleRenderReset(sv.style)))
StyledValueFmt(sv, width) ==
    StyleRender(sv.style) \o Pad(sv.value, width) \o StyleRenderReset(sv.style)

(***************************************************************************)
(* DefaultFormat: the header of a record, rendered into the Formatter's    *)
(* buffer.  A DefaultFormat state is [buf, written_header_value].          *)
(***************************************************************************)
\* DefaultFormat::write_header_value
write_header_value(cfg, ws, st, value) ==
    IF ~st.written_header_value
    THEN [buf |-> st.buf \o StyledValueFmt(subtle_style(ws, <<"[">>), 0) \o value,
          written_header_value |-> TRUE]
    ELSE [st EXCEPT !.buf = st.buf \o <<" ">> \o value]

\* DefaultFormat::write_level
write_level(cfg, ws, st, rec) ==
    IF ~cfg.format_level
    THEN st
    ELSE write_header_value(cfg, ws, st,
            StyledValueFmt([style |-> default_level_style(ws, rec.level),
                            value |-> LevelName(rec.level)], 5))

\* DefaultFormat::write_module_path
write_module_path(cfg, ws, st, rec) ==
    IF ~cfg.format_module_path
    THEN st
    ELSE IF rec.module_path # <<>>
         THEN write_header_value(cfg, ws, st, rec.module_path[1])
         ELSE st

\* DefaultFormat::write_target
write_target_unchecked(cfg, ws, st, rec) ==
    IF ~cfg.format_target
    THEN st
    ELSE write_header_value(cfg, ws, st, rec.target)
write_target(cfg, ws, st, rec) ==
    IF ~cfg.format_target
    THEN st
    ELSE IF rec.target = <<>>
         THEN st
         ELSE write_header_value(cfg, ws, st, rec.target)

\* DefaultFormat::finish_header
finish_header(cfg, ws, st) ==
    IF st.written_header_value
    THEN [st EXCEPT !.buf = st.buf \o StyledValueFmt(subtle_style(ws, <<"]">>), 0)
                                   \o <<" ">>]
    ELSE st

\* DefaultFormat::write up to and including finish_header, appended to buf
WriteHeader(cfg, ws, buf, rec) ==
    finish_header(cfg, ws,
        write_target(cfg, ws,
            write_module_path(cfg, ws,
                write_level(cfg, ws,
                    [buf |-> buf, written_header_value |-> FALSE], rec), rec), rec)).buf

\* DefaultFormat::write_args and the suffix, appended to buf
WriteArgs(cfg, buf, rec) == buf \o rec.args \o cfg.format_suffix

\* The whole line the format function renders for rec, into an empty buffer
Render(cfg, ws, rec) == WriteArgs(cfg, WriteHeader(cfg, ws, <<>>, rec), rec)

(***************************************************************************)
(* The builders.  A logger Builder is                                      *)
(*   [filter, writer: [target, is_test, built],                            *)
(*    format: [format_module_path, format_target, format_level,            *)
(*             format_suffix, built], built].                              *)
(* A build returns [panic, builder, value]: whether the assert! fired, the *)
(* builder it leaves, and (when it did not fire) what was built.           *)
(***************************************************************************)
Targets == {"Stdout", "Stderr", "Pipe"}
Suffixes == {<<"\n">>, <<>>}
LevelFilters == {"Off", "Error", "Info"}

\* <Target as Default>::default (fmt/writer/target.rs)
TargetDefault == "Stderr"

\* <fmt::Builder as Default>::default
FmtBuilderDefault ==
    [format_module_path |-> FALSE,
     format_target      |-> TRUE,
     format_level       |-> TRUE,
     format_suffix      |-> <<"\n">>,
     built              |-> FALSE]

\* writer::Builder::new
WriterBuilderNew ==
    [target |-> TargetDefault, is_test |-> FALSE, built |-> FALSE]

\* <logger::Builder as Default>::default, Builder::new
BuilderNew ==
    [filter |-> "Error",
     writer |-> WriterBuilderNew,
     format |-> FmtBuilderDefault,
     built  |-> FALSE]

\* BufferWriter::stdout
BufferWriterStdout(is_test, write_style) ==
    [target      |-> IF is_test THEN "PrintStdout" ELSE "WriteStdout",
     write_style |-> write_style]

\* BufferWriter::stderr
BufferWriterStderr(is_test, write_style) ==
    [target      |-> IF is_test THEN "PrintStderr" ELSE "WriteStderr",
     write_style |-> write_style]

\* BufferWriter::pipe
BufferWriterPipe(write_style) ==
    [target |-> "Pipe", write_style |-> write_style]

\* writer::Builder::build; choice is what anstream::AutoStream::choice
\* answers for stdout and for stderr at the time of the call
WriterBuildPipeAuto(wb, choice) ==
    IF wb.built
    THEN [panic |-> TRUE, builder |-> wb, value |-> <<>>]
    ELSE LET color_choice ==
                 CASE wb.target = "Stdout" -> choice.stdout
                   [] wb.target = "Stderr" -> choice.stderr
                   [] wb.target = "Pipe"   -> choice.stdout
             writer ==
                 CASE wb.target = "Stdout" -> BufferWriterStdout(wb.is_test, color_choice)
                   [] wb.target = "Stderr" -> BufferWriterStderr(wb.is_test, color_choice)
                   [] wb.target = "Pipe"   -> BufferWriterPipe(color_choice)
         IN  [panic   |-> FALSE,
              builder |-> [wb EXCEPT !.built = TRUE, !.target = TargetDefault],
              value   |-> <<writer>>]
WriterBuild(wb, choice) ==
    IF wb.built
    THEN [panic |-> TRUE, builder |-> wb, value |-> <<>>]
    ELSE LET color_choice ==
                 CASE wb.target = "Stdout" -> choice.stdout
                   [] wb.target = "Stderr" -> choice.stderr
                   [] wb.target = "Pipe"   -> "Never"
             writer ==
                 CASE wb.target = "Stdout" -> BufferWriterStdout(wb.is_test, color_choice)
                   [] wb.target = "Stderr" -> BufferWriterStderr(wb.is_test, color_choice)
                   [] wb.target = "Pipe"   -> BufferWriterPipe(color_choice)
         IN  [panic   |-> FALSE,
              \* mem::take leaves Target::default() behind
              builder |-> [wb EXCEPT !.built = TRUE, !.target = TargetDefault],
              value   |-> <<writer>>]

\* fmt::Builder::build: the FormatFn closes over the builder's fields as
\* they are now; the builder is replaced by a consumed default one
FmtBuildAfterReplace(fb) ==
    IF fb.built
    THEN [panic |-> TRUE, builder |-> fb, value |-> <<>>]
    ELSE [panic   |-> FALSE,
          builder |-> [FmtBuilderDefault EXCEPT !.built = TRUE],
          value   |-> <<[format_module_path |-> FmtBuilderDefault.format_module_path,
                         format_target      |-> FmtBuilderDefault.format_target,
                         format_level       |-> FmtBuilderDefault.format_level,
                         format_suffix      |-> FmtBuilderDefault.format_suffix]>>]
FmtBuild(fb) ==
    IF fb.built
    THEN [panic |-> TRUE, builder |-> fb, value |-> <<>>]
    ELSE [panic   |-> FALSE,
          builder |-> [FmtBuilderDefault EXCEPT !.built = TRUE],
          value   |-> <<[format_module_path |-> fb.format_module_path,
                         format_target      |-> fb.format_target,
                         format_level       |-> fb.format_level,
                         format_suffix      |-> fb.format_suffix]>>]

\* logger::Builder::build
LoggerBuildNotConsumed(b, choice) ==
    LET w == WriterBuild(b.writer, choice)
        f == FmtBuild(b.format)
    IN  IF w.panic \/ f.panic
        THEN [panic |-> TRUE, builder |-> b, value |-> <<>>]
        ELSE [panic   |-> FALSE,
              builder |-> [b EXCEPT !.writer = w.builder, !.format = f.builder],
              value   |-> <<[writer |-> w.value[1], filter |-> b.filter,
                             format |-> f.value[1]]>>]
LoggerBuild(b, choice) ==
    IF b.built
    THEN [panic |-> TRUE, builder |-> b, value |-> <<>>]
    ELSE LET w == WriterBuild(b.writer, choice)
             f == FmtBuild(b.format)
             b1 == [b EXCEPT !.built = TRUE, !.writer = w.builder]
         IN  IF w.panic
             THEN [panic |-> TRUE, builder |-> b1, value |-> <<>>]
             ELSE IF f.panic
                  THEN [panic |-> TRUE, builder |-> b1, value |-> <<>>]
                  ELSE [panic   |-> FALSE,
                        builder |-> [b1 EXCEPT !.format = f.builder],
                        value   |-> <<[writer |-> w.value[1],
                                       filter |-> b.filter,
                                       format |-> f.value[1]]>>]

\* What the color resolver may answer for the two standard streams
Choices == [stdout : ColorChoices, stderr : ColorChoices]

\* Logger::matches, with the filter capability as a maximum level
Matches(logger, rec) ==
    /\ logger.filter # "Off"
    /\ LevelNum(rec.level) <= LevelNum(logger.filter)

(***************************************************************************)
(* State.                                                                  *)
(***************************************************************************)
VARIABLES
    \* the builder under construction, the Loggers it has produced, the
    \* build() calls made on it and those that panicked
    builder, produced, nbuilds, npanics,
    \* the Loggers the threads log through: LoggerIds -> Logger
    loggers,
    \* FORMATTER: per slot key, the RefCell's value (Option<Formatter>) and
    \* its borrow flag; per thread, whether the thread-local is still alive
    slot, borrowed, tls,
    \* per thread: "running", "panicked" or "deadlocked", and why
    status, cause,
    \* per thread, the log() calls in progress, innermost last
    stack,
    \* per Logger, the pipe's Mutex: [holder: Option<thread>, poisoned]
    mutex,
    \* what reached each destination: stdout, stderr, each Logger's pipe
    \* sink; every byte is tagged with the log() call that wrote it
    dest,
    \* per thread, the Writer::print calls it has made, in order
    printed,
    \* per thread the number of log() calls it has made (call n of thread t
    \* is named <<t, n>>), the calls that returned, and per thread whether
    \* it has made a matching call
    tcalls, returned, matched,
    \* one run of the format function (DefaultFormat::write) on its own:
    \* its inputs, the DefaultFormat being written and the step it is at
    fmtIn, fmtSt, fmtPc

buildVars == <<builder, produced, nbuilds, npanics>>
logVars == <<loggers, slot, borrowed, tls, status, cause, stack, mutex, dest,
             printed, tcalls, returned, matched>>
fmtVars == <<fmtIn, fmtSt, fmtPc>>
vars == <<buildVars, logVars, fmtVars>>

(***************************************************************************)
(* Logger::log: the thread-local slot, the Formatter, the print closure.   *)
(***************************************************************************)
\* The records the threads log
RecInfo ==
    [level |-> "Info", target |-> <<"a">>, module_path |-> <<>>,
     args |-> <<"h", "i">>]
RecDebug ==
    [level |-> "Debug", target |-> <<"a">>, module_path |-> <<>>,
     args |-> <<"x">>]
Records == {RecInfo, RecDebug}

\* Logger::log: `if self.matches(record)`
ShouldLogAlways(logger, rec) == TRUE
ShouldLog(logger, rec) == Matches(logger, rec)

\* thread_local! { static FORMATTER }: the slot an access from thread t reaches
SlotShared(t) == "t1"
SlotOf(t) == t

\* Formatter::new, over Writer::buffer (BufferWriter::buffer: an empty Buffer);
\* id names the allocation (by the log() call that made it) and owner the
\* thread that made it
FormatterNew(writer, id, owner) ==
    [id |-> id, owner |-> owner, buf |-> <<>>, write_style |-> writer.write_style]

\* Formatter::clear (Buffer::clear)
FormatterClearNot(f) == f
FormatterClear(f) == [f EXCEPT !.buf = <<>>]

\* Logger::log, the Some(ref mut formatter) arm: the cached Formatter is
\* replaced by a fresh one when its write_style is not the Writer's
CachedFormatterKeep(f, writer, fresh) == f
CachedFormatter(f, writer, fresh) ==
    IF f.write_style # writer.write_style THEN fresh ELSE f

\* Logger::log, the None arm: *tl_buf = Some(formatter)
StoreCreatedNot(f) == <<>>
StoreCreated(f) == <<f>>

\* std::sync::Mutex::lock: the lock is taken only when no thread holds it
MutexAvailableAlways(m) == TRUE
MutexAvailable(m) == m.holder = <<>>

\* String::from_utf8_lossy: an invalid byte becomes U+FFFD
from_utf8_lossy(bytes) ==
    [i \in 1..Len(bytes) |-> IF bytes[i] = "\\xFF" THEN "\\uFFFD" ELSE bytes[i]]

\* anstream::AutoStream::new(stream, choice): escape sequences are stripped
\* under Never and passed otherwise
IsEscape(b) == b \in {RESET, "\\e[36m", "\\e[34m", "\\e[32m", "\\e[33m",
                      "\\e[1m", "\\e[31m", "\\e[90m"}
AutoStream(choice, bytes) ==
    IF choice = "Never" THEN SelectSeq(bytes, LAMBDA b : ~IsEscape(b)) ELSE bytes

Tag(call, bytes) == [i \in 1..Len(bytes) |-> [c |-> call, b |-> bytes[i]]]

Dests == {"stdout", "stderr"} \cup LoggerIds

\* Where BufferWriter::print sends the bytes of Logger l
DestOf(l) ==
    CASE loggers[l].writer.target \in {"WriteStdout", "PrintStdout"} -> "stdout"
      [] loggers[l].writer.target \in {"WriteStderr", "PrintStderr"} -> "stderr"
      [] loggers[l].writer.target = "Pipe" -> l

Top(t) == stack[t][Len(stack[t])]

RECURSIVE SumOver(_, _)
SumOver(f, S) ==
    IF S = {} THEN 0
    ELSE LET x == CHOOSE y \in S : TRUE IN f[x] + SumOver(f, S \ {x})

\* log() calls made so far, over all threads
NCalls == SumOver(tcalls, Threads)

\* Code of the caller runs on thread t: outside log(), inside the Display of
\* a record's args, or inside the pipe sink's write
InUserCode(t) ==
    \/ stack[t] = <<>>
    \/ /\ stack[t] # <<>>
       /\ Top(t).pc \in {"args", "write"}

\* The Formatter the innermost call of t works on: the slot's, borrowed in
\* place, on the cached path, and otherwise a local of the call
CurFmt(t) ==
    IF Top(t).path = "cached" THEN slot[SlotOf(t)][1] ELSE Top(t).fmt[1]

HoldsBorrow(t) ==
    \E i \in 1..Len(stack[t]) : stack[t][i].path \in {"cached", "created"}

\* The arm FORMATTER.try_with's closure takes: try_borrow_mut fails while
\* an outer call on the thread holds the RefMut, else the slot is Some or None
TlsPathIgnoreBorrow(isBorrowed, hasSome) ==
    IF hasSome THEN "cached" ELSE "created"
TlsPath(isBorrowed, hasSome) ==
    IF isBorrowed THEN "reentrant"
    ELSE IF hasSome THEN "cached"
    ELSE "created"

\* printed = try_with(..).is_ok(), which is whether the closure ran, and
\* `if !printed`: whether the one-shot fallback after try_with runs
NeedsFallbackAlways(ranClosure) == TRUE
NeedsFallback(ranClosure) == ~ranClosure

\* .and_then(|_| formatter.print(&self.writer)): whether print is called,
\* given whether the format function returned Ok
PrintsAfterAlways(renderedOk) == TRUE
PrintsAfter(renderedOk) == renderedOk

\* Logger::log up to the rendering of the message: the filter, the dispatch
\* over FORMATTER (try_with, try_borrow_mut, the Some and None arms) and
\* DefaultFormat's header
Log(t, l, rec) ==
    /\ status[t] = "running"
    /\ NCalls < MaxCalls
    /\ Len(stack[t]) < MaxDepth
    /\ InUserCode(t)
    /\ tcalls' = [tcalls EXCEPT ![t] = @ + 1]
    /\ UNCHANGED <<buildVars, fmtVars, loggers, tls, status, cause, mutex, dest, printed,
                   returned>>
    /\ IF \/ ~ShouldLog(loggers[l], rec)
          \/ (tls[t] # "alive" /\ ~NeedsFallback(FALSE))
       THEN UNCHANGED <<slot, borrowed, stack, matched>>
       ELSE LET k == SlotOf(t)
                lg == loggers[l]
                call == <<t, tcalls[t] + 1>>
                fresh == FormatterNew(lg.writer, call, t)
                path == IF tls[t] # "alive" THEN "teardown"
                        ELSE TlsPath(borrowed[k], slot[k] # <<>>)
                f == IF path = "cached"
                     THEN CachedFormatter(slot[k][1], lg.writer, fresh)
                     ELSE fresh
                g == [f EXCEPT !.buf = WriteHeader(lg.format, f.write_style, f.buf, rec)]
                fr == [call |-> call, l |-> l, rec |-> rec, path |-> path,
                       pc |-> "args", pos |-> 0,
                       fmt |-> IF path = "cached" THEN <<>> ELSE <<g>>]
            IN  /\ stack' = [stack EXCEPT ![t] = Append(@, fr)]
                /\ matched' = [matched EXCEPT ![t] = TRUE]
                /\ slot' = IF path = "cached" THEN [slot EXCEPT ![k] = <<g>>] ELSE slot
                /\ borrowed' = IF path \in {"cached", "created"}
                               THEN [borrowed EXCEPT ![k] = TRUE]
                               ELSE borrowed

\* The end of the print closure and of the arm that called it:
\* formatter.clear(), *tl_buf = Some(formatter) in the None arm, the RefMut
\* dropped; then `if !printed`, which after a closure that ran is false,
\* and log() returns
Finish(t) ==
    LET fr == Top(t)
        k == SlotOf(t)
        lg == loggers[fr.l]
        again == fr.path # "teardown" /\ NeedsFallback(TRUE)
        oneshot == FormatterNew(lg.writer, fr.call, t)
        fallback == [fr EXCEPT
                        !.path = "teardown", !.pc = "args", !.pos = 0,
                        !.fmt = <<[oneshot EXCEPT !.buf =
                                     WriteHeader(lg.format, oneshot.write_style,
                                                 oneshot.buf, fr.rec)]>>]
    IN  /\ stack' = [stack EXCEPT ![t] =
                        IF again
                        THEN [@ EXCEPT ![Len(@)] = fallback]
                        ELSE SubSeq(@, 1, Len(@) - 1)]
        /\ returned' = IF again THEN returned ELSE returned \cup {fr.call}
        /\ slot' = CASE fr.path = "cached" ->
                          [slot EXCEPT ![k] = <<FormatterClear(@[1])>>]
                     [] fr.path = "created" ->
                          [slot EXCEPT ![k] = StoreCreated(FormatterClear(fr.fmt[1]))]
                     [] OTHER -> slot
        /\ borrowed' = IF fr.path \in {"cached", "created"}
                       THEN [borrowed EXCEPT ![k] = FALSE]
                       ELSE borrowed

\* A panic on thread t unwinds every log() call in progress on it (a
\* MutexGuard dropped while panicking poisons its Mutex, the RefMut is
\* released) and ends the thread, whose thread-locals are destroyed
Panic(t, why) ==
    /\ status' = [status EXCEPT ![t] = "panicked"]
    /\ cause' = [cause EXCEPT ![t] = why]
    /\ stack' = [stack EXCEPT ![t] = <<>>]
    /\ mutex' = [l \in LoggerIds |->
                    IF mutex[l].holder = <<t>>
                    THEN [holder |-> <<>>, poisoned |-> TRUE]
                    ELSE mutex[l]]
    /\ borrowed' = IF HoldsBorrow(t)
                   THEN [borrowed EXCEPT ![SlotOf(t)] = FALSE]
                   ELSE borrowed
    /\ slot' = [slot EXCEPT ![SlotOf(t)] = <<>>]
    /\ tls' = [tls EXCEPT ![t] = "destroyed"]

\* (self.format)(formatter, record) returns Ok on the innermost call of t:
\* the Display of the args wrote the message and the suffix follows.  The
\* state after it, with formatter.print about to be called
Rendered(t) ==
    LET fr == Top(t)
        f == CurFmt(t)
    IN  [f EXCEPT !.buf = WriteArgs(loggers[fr.l].format, f.buf, fr.rec)]

PrintEvent(t) ==
    LET fr == Top(t)
        g == Rendered(t)
    IN  [call |-> fr.call, t |-> t, l |-> fr.l, rec |-> fr.rec, path |-> fr.path,
         bytes |-> g.buf, fid |-> g.id, owner |-> g.owner, style |-> g.write_style]

AtArgs(t, targets) ==
    /\ status[t] = "running"
    /\ stack[t] # <<>>
    /\ Top(t).pc = "args"
    /\ loggers[Top(t).l].writer.target \in targets

\* (self.format)(formatter, record) returns Err: the Display of the args
\* failed, and_then does not call print, the error is dropped
ArgsErr(t) ==
    /\ AtArgs(t, {"WriteStdout", "WriteStderr", "PrintStdout", "PrintStderr", "Pipe"})
    /\ IF PrintsAfter(FALSE)
       THEN /\ printed' = [printed EXCEPT ![t] =
                              Append(@, [PrintEvent(t) EXCEPT !.bytes = CurFmt(t).buf])]
            /\ dest' = [dest EXCEPT ![DestOf(Top(t).l)] =
                           @ \o Tag(Top(t).call, CurFmt(t).buf)]
       ELSE UNCHANGED <<printed, dest>>
    /\ Finish(t)
    /\ UNCHANGED <<buildVars, fmtVars, loggers, tls, status, cause, mutex, tcalls,
                   matched>>

\* The rendering succeeds and BufferWriter::print runs, WriteStdout and
\* WriteStderr: the stream is locked, write_all and flush run through the
\* AutoStream; write_all may fail after part of the bytes, flush may fail
\* after all of them; the result is dropped
PrintWrite(t) ==
    /\ AtArgs(t, {"WriteStdout", "WriteStderr"})
    /\ printed' = [printed EXCEPT ![t] = Append(@, PrintEvent(t))]
    /\ \E outcome \in {"ok", "write_err", "flush_err"} :
         LET fr == Top(t)
             bytes == AutoStream(loggers[fr.l].writer.write_style, Rendered(t).buf)
             n == IF outcome = "write_err" THEN Len(bytes) \div 2 ELSE Len(bytes)
         IN  dest' = [dest EXCEPT ![DestOf(fr.l)] = @ \o Tag(fr.call, SubSeq(bytes, 1, n))]
    /\ Finish(t)
    /\ UNCHANGED <<buildVars, fmtVars, loggers, tls, status, cause, mutex, tcalls,
                   matched>>

\* The rendering succeeds and BufferWriter::print runs, PrintStdout and
\* PrintStderr: print! and eprint! write the lossily decoded text
PrintCaptureOk(t) ==
    /\ AtArgs(t, {"PrintStdout", "PrintStderr"})
    /\ printed' = [printed EXCEPT ![t] = Append(@, PrintEvent(t))]
    /\ dest' = [dest EXCEPT ![DestOf(Top(t).l)] =
                   @ \o Tag(Top(t).call, from_utf8_lossy(Rendered(t).buf))]
    /\ Finish(t)
    /\ UNCHANGED <<buildVars, fmtVars, loggers, tls, status, cause, mutex, tcalls,
                   matched>>

\* ... and print! and eprint! panic when writing to the stream fails
PrintCaptureFail(t) ==
    /\ AtArgs(t, {"PrintStdout", "PrintStderr"})
    /\ printed' = [printed EXCEPT ![t] = Append(@, PrintEvent(t))]
    /\ Panic(t, "io_error")
    /\ UNCHANGED <<buildVars, fmtVars, loggers, dest, tcalls, returned, matched>>

\* The rendering succeeds and BufferWriter::print is called, Pipe: the call
\* is at pipe.lock()
PrintPipe(t) ==
    /\ AtArgs(t, {"Pipe"})
    /\ printed' = [printed EXCEPT ![t] = Append(@, PrintEvent(t))]
    /\ LET fr == Top(t)
           g == Rendered(t)
       IN  /\ stack' = [stack EXCEPT ![t][Len(stack[t])] =
                           [fr EXCEPT !.pc = "print",
                                      !.fmt = IF fr.path = "cached" THEN <<>> ELSE <<g>>]]
           /\ slot' = IF fr.path = "cached"
                      THEN [slot EXCEPT ![SlotOf(t)] = <<g>>]
                      ELSE slot
    /\ UNCHANGED <<buildVars, fmtVars, loggers, borrowed, tls, status, cause, mutex, dest,
                   tcalls, returned, matched>>

\* BufferWriter::print, Pipe: pipe.lock().unwrap() when no thread holds the
\* Mutex; a poisoned Mutex makes unwrap panic
PipeLock(t) ==
    /\ status[t] = "running"
    /\ stack[t] # <<>>
    /\ Top(t).pc = "print"
    /\ loggers[Top(t).l].writer.target = "Pipe"
    /\ mutex[Top(t).l].holder # <<t>>
    /\ MutexAvailable(mutex[Top(t).l])
    /\ ~mutex[Top(t).l].poisoned
    /\ mutex' = [mutex EXCEPT ![Top(t).l].holder = <<t>>]
    /\ stack' = [stack EXCEPT ![t][Len(stack[t])].pc = "write"]
    /\ UNCHANGED <<buildVars, fmtVars, loggers, slot, borrowed, tls, status, cause, dest,
                   printed, tcalls, returned, matched>>

PipeLockPoisonedRecovers(t) ==
    /\ status[t] = "running"
    /\ stack[t] # <<>>
    /\ Top(t).pc = "print"
    /\ loggers[Top(t).l].writer.target = "Pipe"
    /\ mutex[Top(t).l].holder # <<t>>
    /\ MutexAvailable(mutex[Top(t).l])
    /\ mutex[Top(t).l].poisoned
    /\ mutex' = [mutex EXCEPT ![Top(t).l].holder = <<t>>]
    /\ stack' = [stack EXCEPT ![t][Len(stack[t])].pc = "write"]
    /\ UNCHANGED <<buildVars, fmtVars, loggers, slot, borrowed, tls, status, cause, dest,
                   printed, tcalls, returned, matched>>
PipeLockPoisoned(t) ==
    /\ status[t] = "running"
    /\ stack[t] # <<>>
    /\ Top(t).pc = "print"
    /\ loggers[Top(t).l].writer.target = "Pipe"
    /\ mutex[Top(t).l].holder # <<t>>
    /\ MutexAvailable(mutex[Top(t).l])
    /\ mutex[Top(t).l].poisoned
    /\ Panic(t, "poisoned")
    /\ UNCHANGED <<buildVars, fmtVars, loggers, dest, printed, tcalls, returned, matched>>

\* pipe.lock() on a thread that already holds the Mutex (a log() call made
\* from inside the sink's write): the call does not return, it deadlocks or
\* panics
PipeRelockDeadlock(t) ==
    /\ status[t] = "running"
    /\ stack[t] # <<>>
    /\ Top(t).pc = "print"
    /\ loggers[Top(t).l].writer.target = "Pipe"
    /\ mutex[Top(t).l].holder = <<t>>
    /\ status' = [status EXCEPT ![t] = "deadlocked"]
    /\ cause' = [cause EXCEPT ![t] = "relock"]
    /\ UNCHANGED <<buildVars, fmtVars, loggers, slot, borrowed, tls, stack, mutex, dest,
                   printed, tcalls, returned, matched>>

PipeRelockPanic(t) ==
    /\ status[t] = "running"
    /\ stack[t] # <<>>
    /\ Top(t).pc = "print"
    /\ loggers[Top(t).l].writer.target = "Pipe"
    /\ mutex[Top(t).l].holder = <<t>>
    /\ Panic(t, "relock")
    /\ UNCHANGED <<buildVars, fmtVars, loggers, dest, printed, tcalls, returned, matched>>

\* stream.write_all(buf), one write() call of the sink that succeeds and is
\* not the last: the sink takes SinkChunk of the bytes left
PipeWrite(t) ==
    /\ status[t] = "running"
    /\ stack[t] # <<>>
    /\ Top(t).pc = "write"
    /\ Len(CurFmt(t).buf) - Top(t).pos > SinkChunk
    /\ LET fr == Top(t)
           buf == CurFmt(t).buf
       IN  /\ dest' = [dest EXCEPT ![DestOf(fr.l)] =
                          @ \o Tag(fr.call, SubSeq(buf, fr.pos + 1, fr.pos + SinkChunk))]
           /\ stack' = [stack EXCEPT ![t][Len(stack[t])].pos = fr.pos + SinkChunk]
    /\ UNCHANGED <<buildVars, fmtVars, loggers, slot, borrowed, tls, status, cause, mutex,
                   printed, tcalls, returned, matched>>

\* the last write() call of write_all, which takes the bytes left, then
\* stream.flush(), Ok or Err, and the guard dropped
PipeWriteLast(t) ==
    /\ status[t] = "running"
    /\ stack[t] # <<>>
    /\ Top(t).pc = "write"
    /\ Len(CurFmt(t).buf) - Top(t).pos <= SinkChunk
    /\ LET fr == Top(t)
           buf == CurFmt(t).buf
       IN  dest' = [dest EXCEPT ![DestOf(fr.l)] =
                       @ \o Tag(fr.call, SubSeq(buf, fr.pos + 1, Len(buf)))]
    /\ mutex' = [mutex EXCEPT ![Top(t).l].holder = <<>>]
    /\ Finish(t)
    /\ UNCHANGED <<buildVars, fmtVars, loggers, tls, status, cause, printed, tcalls,
                   matched>>

\* a write() call of the sink that panics: the guard is dropped while
\* panicking
PipeWritePanic(t) ==
    /\ status[t] = "running"
    /\ stack[t] # <<>>
    /\ Top(t).pc = "write"
    /\ Panic(t, "sink")
    /\ UNCHANGED <<buildVars, fmtVars, loggers, dest, printed, tcalls, returned, matched>>

\* a write() call of the sink that fails: `?` returns the error, the guard
\* is dropped
PipeWriteErr(t) ==
    /\ status[t] = "running"
    /\ stack[t] # <<>>
    /\ Top(t).pc = "write"
    /\ mutex' = [mutex EXCEPT ![Top(t).l].holder = <<>>]
    /\ Finish(t)
    /\ UNCHANGED <<buildVars, fmtVars, loggers, tls, status, cause, dest, printed, tcalls, matched>>

\* The thread ends: the destructor of FORMATTER runs
Teardown(t) ==
    /\ status[t] = "running"
    /\ stack[t] = <<>>
    /\ tls[t] = "alive"
    /\ tls' = [tls EXCEPT ![t] = "destroyed"]
    /\ slot' = [slot EXCEPT ![SlotOf(t)] = <<>>]
    /\ UNCHANGED <<buildVars, fmtVars, loggers, borrowed, status, cause, stack, mutex, dest,
                   printed, tcalls, returned, matched>>

(***************************************************************************)
(* The specification of logging: Loggers as build() makes them, logged     *)
(* through by the threads.                                                 *)
(***************************************************************************)
\* The builders the Loggers come from: at the filter level Info, every
\* target and is_test
LogBuilders ==
    {[BuilderNew EXCEPT !.filter = "Info", !.writer.target = tg, !.writer.is_test = it] :
        tg \in Targets, it \in BOOLEAN}

LogChoices == {c \in Choices : c.stdout # "AlwaysAnsi" /\ c.stderr = "Never"}

BuiltLoggers == {LoggerBuild(b, c).value[1] : b \in LogBuilders, c \in LogChoices}

\* Logger l1 is any of them, Logger l2 one whose destination is a pipe
LoggerSetups ==
    {ls \in [LoggerIds -> BuiltLoggers] : ls["l2"].writer.target = "Pipe"}

BuildIdle ==
    /\ builder = BuilderNew
    /\ produced = <<>>
    /\ nbuilds = 0
    /\ npanics = 0

LogIdle ==
    /\ slot = [t \in Threads |-> <<>>]
    /\ borrowed = [t \in Threads |-> FALSE]
    /\ tls = [t \in Threads |-> "alive"]
    /\ status = [t \in Threads |-> "running"]
    /\ cause = [t \in Threads |-> "none"]
    /\ stack = [t \in Threads |-> <<>>]
    /\ mutex = [l \in LoggerIds |-> [holder |-> <<>>, poisoned |-> FALSE]]
    /\ dest = [d \in Dests |-> <<>>]
    /\ printed = [t \in Threads |-> <<>>]
    /\ tcalls = [t \in Threads |-> 0]
    /\ returned = {}
    /\ matched = [t \in Threads |-> FALSE]

\* No run of the format function on its own
FmtIdle ==
    /\ fmtIn = [cfg |-> FmtBuild(FmtBuilderDefault).value[1],
                write_style |-> "Never", rec |-> RecInfo]
    /\ fmtSt = [buf |-> <<>>, written_header_value |-> FALSE]
    /\ fmtPc = "idle"

Init ==
    /\ BuildIdle
    /\ loggers \in LoggerSetups
    /\ LogIdle
    /\ FmtIdle

Next ==
    \/ \E t \in Threads, l \in LoggerIds, rec \in Records : Log(t, l, rec)
    \/ \E t \in Threads : ArgsErr(t)
    \/ \E t \in Threads : PrintWrite(t)
    \/ \E t \in Threads : PrintCaptureOk(t)
    \/ \E t \in Threads : PrintCaptureFail(t)
    \/ \E t \in Threads : PrintPipe(t)
    \/ \E t \in Threads : PipeLock(t)
    \/ \E t \in Threads : PipeLockPoisoned(t)
    \/ \E t \in Threads : PipeRelockDeadlock(t)
    \/ \E t \in Threads : PipeRelockPanic(t)
    \/ \E t \in Threads : PipeWrite(t)
    \/ \E t \in Threads : PipeWriteLast(t)
    \/ \E t \in Threads : PipeWriteErr(t)
    \/ \E t \in Threads : PipeWritePanic(t)
    \/ \E t \in Threads : Teardown(t)

Spec == Init /\ [][Next]_vars

(***************************************************************************)
(* The specification of building: one logger Builder, its setters and its  *)
(* build().                                                                *)
(***************************************************************************)
\* Builder::format_level
SetFormatLevel(write) ==
    /\ builder' = [builder EXCEPT !.format.format_level = write]
    /\ UNCHANGED <<produced, nbuilds, npanics, logVars, fmtVars>>

\* Builder::format_module_path
SetFormatModulePath(write) ==
    /\ builder' = [builder EXCEPT !.format.format_module_path = write]
    /\ UNCHANGED <<produced, nbuilds, npanics, logVars, fmtVars>>

\* Builder::format_target
SetFormatTarget(write) ==
    /\ builder' = [builder EXCEPT !.format.format_target = write]
    /\ UNCHANGED <<produced, nbuilds, npanics, logVars, fmtVars>>

\* Builder::format_suffix
SetFormatSuffix(suffix) ==
    /\ builder' = [builder EXCEPT !.format.format_suffix = suffix]
    /\ UNCHANGED <<produced, nbuilds, npanics, logVars, fmtVars>>

\* Builder::is_test (writer::Builder::is_test)
SetIsTest(is_test) ==
    /\ builder' = [builder EXCEPT !.writer.is_test = is_test]
    /\ UNCHANGED <<produced, nbuilds, npanics, logVars, fmtVars>>

\* The selection of the destination: stdout, stderr or an injected sink
SetTarget(target) ==
    /\ builder' = [builder EXCEPT !.writer.target = target]
    /\ UNCHANGED <<produced, nbuilds, npanics, logVars, fmtVars>>

\* A call of Builder::build, which returns a Logger or panics; the caller
\* keeps the builder either way
Build(choice) ==
    /\ nbuilds < MaxBuilds
    /\ nbuilds' = nbuilds + 1
    /\ LET r == LoggerBuild(builder, choice)
       IN  /\ builder' = r.builder
           /\ produced' = produced \o r.value
           /\ npanics' = IF r.panic THEN npanics + 1 ELSE npanics
    /\ UNCHANGED <<logVars, fmtVars>>

InitBuild ==
    /\ BuildIdle
    /\ loggers = CHOOSE ls \in LoggerSetups : TRUE
    /\ LogIdle
    /\ FmtIdle

NextBuild ==
    \/ \E write \in BOOLEAN : SetFormatLevel(write)
    \/ \E write \in BOOLEAN : SetFormatModulePath(write)
    \/ \E write \in BOOLEAN : SetFormatTarget(write)
    \/ \E suffix \in Suffixes : SetFormatSuffix(suffix)
    \/ \E is_test \in BOOLEAN : SetIsTest(is_test)
    \/ \E target \in Targets : SetTarget(target)
    \/ \E choice \in Choices : Build(choice)

SpecBuild == InitBuild /\ [][NextBuild]_vars

(***************************************************************************)
(* The specification of rendering: the format function a built Logger      *)
(* holds (fmt::Builder::build's closure, DefaultFormat::write) run on one  *)
(* record, step by step, for every format configuration, every color       *)
(* choice of the Formatter and every shape of record.                      *)
(***************************************************************************)
\* The format configurations fmt::Builder::build can produce
FmtConfigs ==
    {FmtBuild([FmtBuilderDefault EXCEPT !.format_level = lv,
                                        !.format_module_path = mp,
                                        !.format_target = tg,
                                        !.format_suffix = sx]).value[1] :
        lv \in BOOLEAN, mp \in BOOLEAN, tg \in BOOLEAN, sx \in Suffixes}

\* Records: every level, a module path absent, present or present and
\* empty, a target empty or not, a message plain, empty or carrying an
\* escape sequence of its own
FmtModulePaths == {<<>>, << <<"m">> >>, << <<>> >>}
FmtTargets == {<<>>, <<"a">>}
FmtArgs == {<<"h", "i">>, <<>>, <<"\\e[31m", "x">>}
FmtRecords ==
    [level : Levels, target : FmtTargets, module_path : FmtModulePaths,
     args : FmtArgs]

InitFmt ==
    /\ BuildIdle
    /\ loggers = CHOOSE ls \in LoggerSetups : TRUE
    /\ LogIdle
    /\ fmtIn \in [cfg : FmtConfigs, write_style : ColorChoices, rec : FmtRecords]
    /\ fmtSt = [buf |-> <<>>, written_header_value |-> FALSE]
    /\ fmtPc = "level"

FmtStep(from, to, st) ==
    /\ fmtPc = from
    /\ fmtPc' = to
    /\ fmtSt' = st
    /\ UNCHANGED <<fmtIn, buildVars, logVars>>

\* DefaultFormat::write: self.write_level(record)?
FmtWriteLevel ==
    FmtStep("level", "module_path",
            write_level(fmtIn.cfg, fmtIn.write_style, fmtSt, fmtIn.rec))

\* self.write_module_path(record)?
FmtWriteModulePath ==
    FmtStep("module_path", "target",
            write_module_path(fmtIn.cfg, fmtIn.write_style, fmtSt, fmtIn.rec))

\* self.write_target(record)?
FmtWriteTarget ==
    FmtStep("target", "finish",
            write_target(fmtIn.cfg, fmtIn.write_style, fmtSt, fmtIn.rec))

\* self.finish_header()?
FmtFinishHeader ==
    FmtStep("finish", "args",
            finish_header(fmtIn.cfg, fmtIn.write_style, fmtSt))

\* self.write_args(record)? and write!(self.buf, "{}", self.suffix)
FmtWriteArgs ==
    FmtStep("args", "done",
            [fmtSt EXCEPT !.buf = WriteArgs(fmtIn.cfg, fmtSt.buf, fmtIn.rec)])

NextFmt ==
    \/ FmtWriteLevel
    \/ FmtWriteModulePath
    \/ FmtWriteTarget
    \/ FmtFinishHeader
    \/ FmtWriteArgs

SpecFmt == InitFmt /\ [][NextFmt]_vars

(***************************************************************************)
(* The claims.                                                             *)
(***************************************************************************)
Frames(t) == {stack[t][i] : i \in 1..Len(stack[t])}
Events(t) == {printed[t][i] : i \in 1..Len(printed[t])}

\* The Formatter frame fr of thread t works on
FrameFmt(t, fr) == IF fr.path = "cached" THEN slot[SlotOf(t)][1] ELSE fr.fmt[1]

\* C1: a log() call made on a thread while an outer log() call of that thread
\* holds the thread-local slot never blocks: no thread is deadlocked in a
\* re-entrant call.
C1_ReentrantNeverBlocks ==
    \A t \in Threads :
        ~(/\ status[t] = "deadlocked"
          /\ HoldsBorrow(t)
          /\ Top(t).path = "reentrant")

\* C2: whatever the outcome of the destination's write and flush, success or
\* I/O error, log() returns: no thread panics in log() on an I/O error.
C2_ErrorsNeverEscape ==
    \A t \in Threads : ~(status[t] = "panicked" /\ cause[t] = "io_error")

C4_NonMatchingNoEffect ==
    /\ [][\A t \in Threads :
            tcalls'[t] # tcalls[t] =>
               \/ UNCHANGED <<slot, borrowed, stack, mutex, dest, printed, returned,
                              status, tls>>
               \/ /\ Len(stack'[t]) = Len(stack[t]) + 1
                  /\ Matches(loggers[stack'[t][Len(stack'[t])].l],
                             stack'[t][Len(stack'[t])].rec)]_vars
    /\ [](\A t \in Threads :
            ~matched[t] => /\ slot[SlotOf(t)] = <<>>
                           /\ printed[t] = <<>>
                           /\ stack[t] = <<>>)

\* a thread has made two calls, none of a matching record
C4_Witness ==
    \E t \in Threads : tcalls[t] = 2 /\ ~matched[t] /\ slot[SlotOf(t)] = <<>>

\* C5: a call that is writing to a pipe sink holds the sink's guard, and in
\* every pipe sink the bytes of one call form one contiguous block: once the
\* bytes of another call follow, none of its bytes appears again.
C5_PipeWritesSerialized ==
    /\ \A t \in Threads : \A fr \in Frames(t) :
          fr.pc = "write" => mutex[fr.l].holder = <<t>>
    /\ \A l \in LoggerIds : \A i \in 1..(Len(dest[l]) - 1) :
          dest[l][i].c # dest[l][i + 1].c =>
             \A k \in (i + 2)..Len(dest[l]) : dest[l][k].c # dest[l][i].c

\* one thread is in the middle of writing a record to a pipe sink while
\* another, its record rendered, waits for the guard of that sink
C5_Witness ==
    \E t, u \in Threads : \E l \in LoggerIds :
        /\ t # u
        /\ stack[t] # <<>> /\ Top(t).pc = "write" /\ Top(t).l = l /\ Top(t).pos > 0
        /\ stack[u] # <<>> /\ Top(u).pc = "print" /\ Top(u).l = l

\* C6: every Formatter a thread renders into or prints from was made by that
\* thread, and a thread that is rendering can always take its next step,
\* whatever the other threads hold.
C6_FormatterPerThread ==
    /\ \A t \in Threads : \A e \in Events(t) : e.owner = t
    /\ \A t \in Threads : \A fr \in Frames(t) : FrameFmt(t, fr).owner = t
    /\ \A t \in Threads :
          (status[t] = "running" /\ stack[t] # <<>> /\ Top(t).pc = "args")
             => ENABLED (PrintWrite(t) \/ PrintCaptureOk(t) \/ PrintPipe(t))

\* both threads are rendering at once, each holding the borrow of its own
\* slot and writing into a Formatter of its own
C6_Witness ==
    /\ \A t \in Threads :
          /\ stack[t] # <<>>
          /\ Top(t).pc = "args"
          /\ borrowed[SlotOf(t)]
          /\ FrameFmt(t, Top(t)).buf # <<>>
    /\ FrameFmt("t1", Top("t1")).id # FrameFmt("t2", Top("t2")).id

\* C7: the slot of a thread is filled only by the return of the call that
\* found it empty, with the Formatter that call made, and that call always
\* fills it; a call that finds a Formatter in a free slot works on it; the
\* Formatter in the slot is replaced only by a call whose Writer has another
\* color choice, and removed only with the thread-local.
C7_FormatterLifecycle ==
    [][\A t \in Threads :
         LET k == SlotOf(t)
             returns == /\ stack[t] # <<>>
                        /\ Top(t).call \in returned' \ returned
             enters == /\ tcalls'[t] # tcalls[t]
                       /\ Len(stack'[t]) = Len(stack[t]) + 1
         IN  /\ (slot[k] = <<>> /\ slot'[k] # <<>>) =>
                   /\ returns
                   /\ Top(t).path = "created"
                   /\ slot'[k][1].id = Top(t).call
             /\ (returns /\ Top(t).path = "created") =>
                   /\ slot'[k] # <<>>
                   /\ slot'[k][1].id = Top(t).call
             /\ (enters /\ tls[t] = "alive" /\ ~borrowed[k] /\ slot[k] # <<>>) =>
                   /\ stack'[t][Len(stack'[t])].path = "cached"
                   /\ slot'[k] # <<>>
                   /\ \/ slot'[k][1].id = slot[k][1].id
                      \/ slot[k][1].write_style #
                            loggers[stack'[t][Len(stack'[t])].l].writer.write_style
             /\ (slot[k] # <<>> /\ slot'[k] # <<>> /\ slot'[k][1].id # slot[k][1].id) =>
                   /\ enters
                   /\ slot[k][1].write_style #
                         loggers[stack'[t][Len(stack'[t])].l].writer.write_style
             /\ (slot[k] # <<>> /\ slot'[k] = <<>>) =>
                   (tls[t] = "alive" /\ tls'[t] = "destroyed")]_vars

\* a thread's second call is working on the Formatter its first call made
C7_Witness ==
    \E t \in Threads :
        /\ stack[t] # <<>>
        /\ Top(t).path = "cached"
        /\ Top(t).call = <<t, 2>>
        /\ slot[SlotOf(t)][1].id = <<t, 1>>

\* C8: every record is rendered and printed by a Formatter whose color-choice
\* snapshot is the color choice of the Writer of the Logger that logs it.
C8_ColorConsistency ==
    /\ \A t \in Threads : \A e \in Events(t) :
          e.style = loggers[e.l].writer.write_style
    /\ \A t \in Threads : \A fr \in Frames(t) :
          FrameFmt(t, fr).write_style = loggers[fr.l].writer.write_style

\* a record was printed from the slot's Formatter, remade by the call that
\* printed it because the cached one had another color choice
C8_Witness ==
    \E t \in Threads : \E e \in Events(t) :
        /\ e.path = "cached"
        /\ e.fid = e.call

\* C9: the first build() of a builder returns a Logger and every later one
\* panics, so a builder produces at most one Logger; once built, the logger
\* Builder, its writer Builder and its format Builder are all consumed.
C9_BuilderSingleUse ==
    /\ Len(produced) <= 1
    /\ nbuilds >= 1 =>
          /\ Len(produced) = 1
          /\ npanics = nbuilds - 1
          /\ builder.built
          /\ builder.writer.built
          /\ builder.format.built
    /\ nbuilds = 0 => ~builder.built

\* build() was called twice: one Logger, one panic
C9_Witness ==
    /\ nbuilds = 2
    /\ npanics = 1
    /\ Len(produced) = 1

\* C10: a Writer built with is_test = true (a capture-print target) has the
\* color choice Never.
C10_CaptureNeverColors ==
    \A i \in DOMAIN produced :
        produced[i].writer.target \in {"PrintStdout", "PrintStderr"}
            => produced[i].writer.write_style = "Never"


\* C11: a Writer built for a pipe destination has the color choice Never
\* whatever the color resolver answers for the streams, and a Formatter
\* created from it carries Never as its write_style
C11_PipeResolvesNever ==
    \A i \in 1..Len(produced) :
        produced[i].writer.target = "Pipe" =>
            /\ produced[i].writer.write_style = "Never"
            /\ \A t \in Threads :
                 FormatterNew(produced[i].writer, <<t, 1>>, t).write_style = "Never"

\* a Logger on a pipe has been built
C11_Witness ==
    /\ produced # <<>>
    /\ produced[1].writer.target = "Pipe"
    /\ builder.built

\* The bytes with the escape sequences removed, and whether there are any
StripEscapes(bytes) == SelectSeq(bytes, LAMBDA b : ~IsEscape(b))
HasEscape(bytes) == \E i \in 1..Len(bytes) : IsEscape(bytes[i])

\* The record's own text carries no escape sequence
RecPlain(rec) ==
    /\ ~HasEscape(rec.args)
    /\ ~HasEscape(rec.target)
    /\ rec.module_path # <<>> => ~HasEscape(rec.module_path[1])

\* C12 as stated: for every record and format configuration the rendered
\* line holds an escape sequence exactly when the color choice is not Never,
\* and the line under Never is the line under the choice with the escape
\* sequences removed
C12_EscapesIffColored ==
    fmtPc = "done" =>
        /\ HasEscape(fmtSt.buf) <=> fmtIn.write_style # "Never"
        /\ Render(fmtIn.cfg, "Never", fmtIn.rec) = StripEscapes(fmtSt.buf)

\* C12 amended: for a record whose own text carries no escape sequence, the
\* rendered line holds an escape sequence exactly when the color choice is
\* not Never and a header field was written, and the line under Never is
\* the line under the choice with the escape sequences removed
C12_EscapesIffColoredHeader ==
    (fmtPc = "done" /\ RecPlain(fmtIn.rec)) =>
        /\ HasEscape(fmtSt.buf) <=>
              (fmtIn.write_style # "Never" /\ fmtSt.written_header_value)
        /\ Render(fmtIn.cfg, "Never", fmtIn.rec) = StripEscapes(fmtSt.buf)

\* a plain record rendered with a header under a coloring choice
C12_Witness ==
    /\ fmtPc = "done"
    /\ RecPlain(fmtIn.rec)
    /\ fmtIn.write_style = "Always"
    /\ fmtSt.written_header_value
    /\ HasEscape(fmtSt.buf)

\* The header fields written for a record, in the order level, module path,
\* target
HeaderFields(cfg, rec) ==
    (IF cfg.format_level
     THEN <<LevelName(rec.level)
            \o [i \in 1..(5 - Len(LevelName(rec.level))) |-> " "]>>
     ELSE <<>>)
    \o (IF cfg.format_module_path /\ rec.module_path # <<>>
        THEN <<rec.module_path[1]>> ELSE <<>>)
    \o (IF cfg.format_target /\ rec.target # <<>> THEN <<rec.target>> ELSE <<>>)

RECURSIVE JoinFields(_)
JoinFields(W) ==
    IF Len(W) = 1 THEN W[1] ELSE W[1] \o <<" ">> \o JoinFields(Tail(W))

\* The line the layout rule gives, without styling
ExpectedLayout(cfg, rec) ==
    LET W == HeaderFields(cfg, rec)
    IN  IF W = <<>>
        THEN rec.args \o cfg.format_suffix
        ELSE <<"[">> \o JoinFields(W) \o <<"]", " ">> \o rec.args \o cfg.format_suffix

\* C13: with no header field written the line is the message and the suffix;
\* otherwise it is "[", the written fields in the order level, module path,
\* target separated by one space, "]", one space, the message and the
\* suffix; the styling apart, and byte for byte under Never
C13_HeaderLayout ==
    fmtPc = "done" =>
        /\ StripEscapes(fmtSt.buf) = StripEscapes(ExpectedLayout(fmtIn.cfg, fmtIn.rec))
        /\ fmtIn.write_style = "Never" =>
              fmtSt.buf = ExpectedLayout(fmtIn.cfg, fmtIn.rec)
        /\ fmtSt.written_header_value <=> HeaderFields(fmtIn.cfg, fmtIn.rec) # <<>>

\* the three fields written for a record with a message, without styling
C13_Witness ==
    /\ fmtPc = "done"
    /\ Len(HeaderFields(fmtIn.cfg, fmtIn.rec)) = 3
    /\ fmtIn.write_style = "Never"
    /\ fmtIn.rec.args # <<>>

\* C14 as stated: a log() call of a matching record on a Logger whose pipe
\* guard is poisoned does not return
C14_PoisonedNeverReturns ==
    [][\A t \in Threads :
          (/\ stack[t] # <<>>
           /\ loggers[Top(t).l].writer.target = "Pipe"
           /\ mutex[Top(t).l].poisoned)
          => Top(t).call \notin returned']_vars

\* C14 amended: when the rendering of the record succeeded and print is at
\* the lock of a poisoned guard, the call's next step is the panic of its
\* thread in print ("poisoned"), it does not return, and no byte of the
\* record is or was written to the sink
C14_PoisonedPrintPanics ==
    [][\A t \in Threads :
          (/\ stack[t] # <<>>
           /\ Top(t).pc = "print"
           /\ mutex[Top(t).l].poisoned
           /\ stack'[t] # stack[t])
          => /\ status'[t] = "panicked"
             /\ cause'[t] = "poisoned"
             /\ Top(t).call \notin returned'
             /\ dest' = dest
             /\ \A i \in 1..Len(dest[Top(t).l]) : dest[Top(t).l][i].c # Top(t).call]_vars

\* a thread has panicked at the lock of a poisoned guard
C14_Witness ==
    \E t \in Threads : status[t] = "panicked" /\ cause[t] = "poisoned"

\* C15: a log() call that runs the teardown fallback (the thread-local is
\* gone) and is rendering and printing to a stream does not panic
C15_TeardownNeverPanics ==
    [][\A t \in Threads :
          (/\ stack[t] # <<>>
           /\ Top(t).path = "teardown"
           /\ Top(t).pc = "args")
          => status'[t] # "panicked"]_vars

\* C16: the Logger's format is the builder's format_level,
\* format_module_path, format_target and format_suffix as they are when
\* build() is called, and nothing done to the builder afterwards changes a
\* Logger already built
C16_FormatFrozenAtBuild ==
    [][/\ (produced = <<>> /\ produced' # <<>>) =>
             produced'[1].format =
                 [format_module_path |-> builder.format.format_module_path,
                  format_target      |-> builder.format.format_target,
                  format_level       |-> builder.format.format_level,
                  format_suffix      |-> builder.format.format_suffix]
       /\ produced # <<>> =>
             /\ produced' = produced
             /\ \A rec \in Records :
                  Render(produced'[1].format, "Always", rec)
                      = Render(produced[1].format, "Always", rec)]_vars

\* a setter called after build() has given the builder a format_level and a
\* suffix the Logger does not have
C16_Witness ==
    /\ produced # <<>>
    /\ builder.built
    /\ builder.format.format_level # produced[1].format.format_level
    /\ builder.format.format_suffix # produced[1].format.format_suffix

\* The index in bytes of the n-th byte that is not an escape sequence
NthPlain(bytes, n) ==
    CHOOSE i \in 1..Len(bytes) :
        /\ ~IsEscape(bytes[i])
        /\ Cardinality({j \in 1..i : ~IsEscape(bytes[j])}) = n

\* C17: with format_level the level token, which follows the opening
\* bracket, is the level's name followed by spaces up to 5 characters, and
\* under a coloring choice the 5 characters stand between the level's style
\* and its reset
C17_LevelTokenPadded ==
    (fmtPc \notin {"idle", "level"} /\ fmtIn.cfg.format_level) =>
        LET b == fmtSt.buf
            name == LevelName(fmtIn.rec.level)
            first == NthPlain(b, 2)
            last == NthPlain(b, 6)
        IN  /\ b[NthPlain(b, 1)] = "["
            /\ last - first = 4
            /\ \A j \in 1..5 :
                 b[first + j - 1] = IF j <= Len(name) THEN name[j] ELSE " "
            /\ fmtIn.write_style # "Never" =>
                 /\ IsEscape(b[first - 1]) /\ b[first - 1] # RESET
                 /\ b[last + 1] = RESET

\* a four-letter level rendered under a coloring choice
C17_Witness ==
    /\ fmtPc = "done"
    /\ fmtIn.cfg.format_level
    /\ fmtIn.write_style = "Always"
    /\ fmtIn.rec.level = "Warn"
    /\ fmtSt.buf[NthPlain(fmtSt.buf, 6)] = " "

\* The number of Writer::print calls thread t has made for call c
PrintsOf(t, c) == Cardinality({i \in 1..Len(printed[t]) : printed[t][i].call = c})

\* C18: no call prints twice; a call still rendering has not printed and a
\* call past its rendering has printed once; the teardown fallback runs only
\* on a thread whose thread-local is gone; and a call that returns from its
\* rendering step has either just printed its whole line once, or failed to
\* render and left the prints and the destinations as they were
C18_ExactlyOnceDispatch ==
    /\ [](\A t \in Threads :
            /\ \A c \in {<<t, n>> : n \in 1..tcalls[t]} : PrintsOf(t, c) <= 1
            /\ \A fr \in Frames(t) :
                 /\ fr.pc = "args" => PrintsOf(t, fr.call) = 0
                 /\ fr.pc \in {"print", "write"} => PrintsOf(t, fr.call) = 1
                 /\ fr.path = "teardown" => tls[t] # "alive"
            /\ \A e \in Events(t) : e.path = "teardown" => tls[t] # "alive")
    /\ [][\A t \in Threads :
            (/\ stack[t] # <<>>
             /\ Top(t).pc = "args"
             /\ Top(t).call \in returned' \ returned)
            => \/ /\ Len(printed'[t]) = Len(printed[t]) + 1
                  /\ printed'[t][Len(printed'[t])].call = Top(t).call
                  /\ printed'[t][Len(printed'[t])].path = Top(t).path
                  /\ Cardinality({i \in 1..Len(printed'[t]) :
                                     printed'[t][i].call = Top(t).call}) = 1
               \/ UNCHANGED <<printed, dest>>]_vars

\* a thread has printed one record through a Formatter it created and,
\* after its thread-local was destroyed, one through the teardown fallback
C18_Witness ==
    \E t \in Threads :
        /\ Len(printed[t]) = 2
        /\ printed[t][1].path = "created"
        /\ printed[t][2].path = "teardown"
        /\ returned = {<<t, 1>>, <<t, 2>>}

\* The calls of thread t that returned without a print
Unprinted(t) == {c \in returned : c[1] = t /\ PrintsOf(t, c) = 0}

\* C19: a call whose format function failed has made no print and no byte of
\* it is in any destination; what a print is handed is always a whole line;
\* the slot's buffer is empty after the call, and the thread's later
\* records are rendered and printed whole
C19_RenderErrorSkipsPrint ==
    \A t \in Threads :
        /\ \A c \in Unprinted(t) : \A d \in Dests : \A i \in 1..Len(dest[d]) :
              dest[d][i].c # c
        /\ \A i \in 1..Len(printed[t]) :
              printed[t][i].bytes =
                  Render(loggers[printed[t][i].l].format,
                         loggers[printed[t][i].l].writer.write_style,
                         printed[t][i].rec)
        /\ (~borrowed[SlotOf(t)] /\ slot[SlotOf(t)] # <<>>) =>
              slot[SlotOf(t)][1].buf = <<>>

\* the first call of a thread failed to render, its second was rendered
\* into the Formatter the first had left in the slot and reached the
\* destination whole
C19_Witness ==
    \E t \in Threads :
        /\ <<t, 1>> \in Unprinted(t)
        /\ <<t, 2>> \in returned
        /\ Len(printed[t]) = 1
        /\ printed[t][1].call = <<t, 2>>
        /\ printed[t][1].path = "cached"
        /\ printed[t][1].fid = <<t, 1>>
        /\ \E d \in Dests :
              dest[d] = Tag(<<t, 2>>,
                            AutoStream(printed[t][1].style, printed[t][1].bytes))

\* The positions in destination d of the bytes call c wrote
BytesOf(d, c) == {i \in 1..Len(dest[d]) : dest[d][i].c = c}

\* C20: while a call is rendering none of its bytes is in a destination, so
\* what a call made from inside its rendering writes comes first; a print
\* made by a later call of the thread before the print of an earlier one
\* (a call nested in the earlier one's rendering) has all its bytes before
\* the earlier one's; and a step of a nested call leaves the thread's slot,
\* its borrow flag and the frames of the calls around it as they were
C20_ReentrantOrdering ==
    /\ [](\A t \in Threads :
            /\ \A fr \in Frames(t) : fr.pc = "args" =>
                  \A d \in Dests : BytesOf(d, fr.call) = {}
            /\ \A i, j \in 1..Len(printed[t]) :
                  (i < j /\ printed[t][i].call[2] > printed[t][j].call[2]) =>
                     \A d \in Dests :
                        \A p \in BytesOf(d, printed[t][i].call),
                           q \in BytesOf(d, printed[t][j].call) : p < q)
    /\ [][\A t \in Threads :
            (/\ Len(stack[t]) >= 2 \/ Len(stack'[t]) >= 2
             /\ status'[t] = "running")
            => /\ slot'[SlotOf(t)] = slot[SlotOf(t)]
               /\ borrowed'[SlotOf(t)] = borrowed[SlotOf(t)]
               /\ \A i \in 1..(Min(Len(stack[t]), Len(stack'[t])) - 1) :
                     stack'[t][i] = stack[t][i]]_vars

\* a call made from inside the rendering of an outer call has printed
\* through a one-shot Formatter and returned, its bytes are in a
\* destination, and the outer call is still rendering with the slot empty
C20_Witness ==
    \E t \in Threads :
        /\ Len(stack[t]) = 1
        /\ Top(t).pc = "args"
        /\ Top(t).path = "created"
        /\ slot[SlotOf(t)] = <<>>
        /\ Len(printed[t]) = 1
        /\ printed[t][1].path = "reentrant"
        /\ printed[t][1].call[2] > Top(t).call[2]
        /\ printed[t][1].call \in returned
        /\ \E d \in Dests : BytesOf(d, printed[t][1].call) # {}


====
